---------------------------- MODULE Spec2Model ----------------------------
(***************************************************************************)
(* A model of mcp-grampsweb: the AuthManager singleton (auth.ts), the      *)
(* GrampsClient.request transport (client.ts) and the breadth-first        *)
(* lineage traversals grampsGetAncestors / grampsGetDescendants            *)
(* (tools/analysis.ts).                                                    *)
(*                                                                         *)
(* Specifications sharing the module (SpecTravFair is SpecTrav with weak   *)
(* fairness, for termination):                                             *)
(*   Spec      - concurrent callers of getToken() and request() against    *)
(*               the one AuthManager (JavaScript run-to-completion: every  *)
(*               action is the code between two awaits);                   *)
(*   SpecTrav  - one lineage traversal over a family graph of the store.   *)
(***************************************************************************)
EXTENDS Integers, Sequences, FiniteSets, TLC

(***************************************************************************)
(* Bounds of the model.                                                    *)
(***************************************************************************)
NProcs == 2          \* concurrent callers (grampsGetBatch maps N handles to N requests)
MaxExchanges == 3    \* credential exchanges issued in one behaviour
MaxTicks == 1        \* clock advances in one behaviour

(***************************************************************************)
(* Program constants.                                                      *)
(***************************************************************************)
TOKEN_EXPIRY_BUFFER_MS == 30 * 1000
DEFAULT_EXPIRY_MS == 60 * 60 * 1000

Procs == 1..NProcs

\* the record store answers with these statuses; response.ok is 200..299
Statuses == {200, 401, 404, 500}
\* what the store answers: a 2xx response carries a JSON document or the
\* empty body (""), any other response carries an error document
Responses ==
  {[status |-> 200, body |-> b] : b \in {"", "docA"}} \cup
  {[status |-> st, body |-> "errDoc"] : st \in Statuses \ {200}}
\* a token without a readable exp claim
NoExp == -1
\* what the token endpoint returns as access_token: three dot-separated
\* segments with a JSON payload ("jwt"), fewer than three segments ("short"),
\* or three segments whose middle one does not decode to JSON ("notjson")
TokenForms == {"jwt", "short", "notjson"}
\* lifetimes (seconds) the token endpoint stamps into the exp claim: with the
\* 30 s buffer a token of 30 s is stale at once, one of 31 s after a second;
\* NoExp stands for a token whose exp claim cannot be read
Lifetimes == {30, 31, NoExp}

Endpoint == "/people/h1"
Undefined == "undefined"

VARIABLES
  \* ---- AuthManager fields (auth.ts 11-14)
  config,          \* TRUE once initialize() ran
  token,           \* the cached token record, NullToken when null
  tokenExpiry,     \* epoch ms
  refreshPromise,  \* 0 when null, else the id of the exchange the promise runs
  \* ---- environment
  now,             \* Date.now(), ms
  exchanges,       \* sequence of credential exchanges (refreshToken() calls)
  \* ---- callers
  pc,              \* where each caller stands
  op,              \* "getToken" or "request"
  awaiting,        \* the exchange whose promise the caller awaits in getToken()
  creator,         \* the caller created that promise (auth.ts 44)
  forcedEx,        \* the exchange the caller's request forced after a 401
  sent,            \* the identities of the tokens it sent as Authorization
  resp,            \* the responses it received
  raised,          \* the rejection of fetch() it caught, "" when none
  result,          \* what the call returned or threw
  \* ---- lineage traversal (tools/analysis.ts)
  tpc, dir, gid, origin, genParam, generations, queue, visited, found,
  cur, pendingFams, fetched, failP, failF, output,
  \* ---- gramps_get (tools/search.ts)
  gpc,             \* where the call stands
  gInput,          \* params.handle: a handle or a Gramps ID
  gStore,          \* the entities of the store
  gReqs,           \* the requests grampsGet issued
  gOut,            \* what grampsGet returned or threw
  \* ---- loadConfig (config.ts)
  cpc,             \* "start" before the call, "done" after it
  env,             \* process.env: the three variables
  cfgOut,          \* what loadConfig returned or threw
  \* ---- gramps_add_child_to_family, gramps_update_family (one family)
  fpc,             \* where each call stands
  fIn,             \* the parameters of each call
  fStore,          \* the child_ref_list of the family in the store
  fRead,           \* the child_ref_list each call received from its GET
  fReqs,           \* the requests each call issued
  fOut             \* how each call ended

authVars == <<config, token, tokenExpiry, refreshPromise, now, exchanges,
              pc, op, awaiting, creator, forcedEx, sent, resp, raised,
              result>>
travVars == <<tpc, dir, gid, origin, genParam, generations, queue, visited,
              found, cur, pendingFams, fetched, failP, failF, output>>
getVars == <<gpc, gInput, gStore, gReqs, gOut>>
cfgVars == <<cpc, env, cfgOut>>
famVars == <<fpc, fIn, fStore, fRead, fReqs, fOut>>
toolVars == <<getVars, cfgVars, famVars>>
vars == <<authVars, travVars, toolVars>>

NullToken == [id |-> 0, form |-> "", exp |-> NoExp]

\* token.split(".") and JSON.parse of the decoded payload (auth.ts 103-112)
segments(tk) == IF tk.form = "short" THEN 2 ELSE 3
payloadIsJson(tk) == tk.form = "jwt"

(***************************************************************************)
(* auth.ts 100-125: extractExpiry.  A token is abstracted to its identity, *)
(* its form and the exp claim (epoch seconds) its payload decodes to.      *)
(***************************************************************************)
extractExpiryNoBuffer(tk, t) ==
  IF segments(tk) # 3 THEN t + DEFAULT_EXPIRY_MS
  ELSE IF ~payloadIsJson(tk) THEN t + DEFAULT_EXPIRY_MS
  ELSE IF tk.exp # NoExp /\ tk.exp # 0
    THEN tk.exp * 1000 - TOKEN_EXPIRY_BUFFER_MS
    ELSE t + DEFAULT_EXPIRY_MS
extractExpiry(tk, t) ==
  IF segments(tk) # 3 THEN t + DEFAULT_EXPIRY_MS - TOKEN_EXPIRY_BUFFER_MS
  ELSE IF ~payloadIsJson(tk) THEN t + DEFAULT_EXPIRY_MS - TOKEN_EXPIRY_BUFFER_MS
  ELSE IF tk.exp # NoExp /\ tk.exp # 0
    THEN tk.exp * 1000 - TOKEN_EXPIRY_BUFFER_MS
    ELSE t + DEFAULT_EXPIRY_MS - TOKEN_EXPIRY_BUFFER_MS

\* auth.ts 34 / 138-140: the cached token is still valid
hasValidTokenInclusive == token # NullToken /\ now <= tokenExpiry
hasValidToken == token # NullToken /\ now < tokenExpiry

\* auth.ts 33-36: getToken() returns the cached token at once
cacheHitNever == FALSE
cacheHit == hasValidToken

(***************************************************************************)
(* errors.ts 5-28 and client.ts 109-121: the failures a caller can see.    *)
(***************************************************************************)
GrampsAPIError(msg, status, endpoint) ==
  [ok |-> FALSE, name |-> "GrampsAPIError", msg |-> msg,
   statusCode |-> status, endpoint |-> endpoint, value |-> Undefined]
AuthenticationError(msg) ==
  [ok |-> FALSE, name |-> "AuthenticationError", msg |-> msg,
   statusCode |-> 401, endpoint |-> Undefined, value |-> Undefined]
NotFoundError(entityType, identifier) ==
  [ok |-> FALSE, name |-> "NotFoundError",
   msg |-> entityType \o " not found: " \o identifier,
   statusCode |-> 404, endpoint |-> Undefined, value |-> Undefined]
\* a rejection of fetch() itself that no catch of this code wraps
RawError(msg) ==
  [ok |-> FALSE, name |-> "TypeError", msg |-> msg,
   statusCode |-> 0, endpoint |-> Undefined, value |-> Undefined]
Returned(v) ==
  [ok |-> TRUE, name |-> "", msg |-> "", statusCode |-> 0,
   endpoint |-> Undefined, value |-> v]
NoResult ==
  [ok |-> FALSE, name |-> "pending", msg |-> "", statusCode |-> 0,
   endpoint |-> Undefined, value |-> Undefined]


(***************************************************************************)
(* Credential exchanges.  Each call of refreshToken() issues one POST to   *)
(* the token endpoint (auth.ts 70); the record keeps who issued it and how *)
(* it settled.                                                             *)
(***************************************************************************)
NoAnswer == [status |-> 0, body |-> ""]
NewExchange(i, how) ==
  [by |-> how, owner |-> i, state |-> "pending", value |-> NullToken,
   answer |-> NoAnswer, err |-> NoResult]

\* how the token endpoint can answer the POST of auth.ts 70, and what it
\* answers: a token, a rejection of the credentials, a server failure, a 200
\* without access_token, or nothing (the fetch rejects)
ExchangeFailures == {"rejected", "unavailable", "notoken", "network"}
tokenAnswer(outcome) ==
  CASE outcome = "ok" -> [status |-> 200, body |-> "tokenDoc"]
    [] outcome = "rejected" -> [status |-> 401, body |-> "errDoc"]
    [] outcome = "unavailable" -> [status |-> 500, body |-> "errDoc"]
    [] outcome = "notoken" -> [status |-> 200, body |-> "emptyDoc"]
    [] OTHER -> NoAnswer

\* auth.ts 78-83: the message of the failure for a non-success status
failedToAuthenticate(answer) ==
  "Failed to authenticate: " \o ToString(answer.status) \o ". " \o answer.body

\* auth.ts 78-88: what refreshToken() throws
refreshError(outcome) ==
  CASE outcome \in {"rejected", "unavailable"} ->
         AuthenticationError(failedToAuthenticate(tokenAnswer(outcome)))
    [] outcome = "notoken" ->
         AuthenticationError("No access token in response")
    [] OTHER -> RawError("fetch failed")

Pending == {e \in DOMAIN exchanges : exchanges[e].state = "pending"}

\* auth.ts 130-133: clearToken
clearTokenNoop == [token |-> token, tokenExpiry |-> tokenExpiry]
clearToken == [token |-> NullToken, tokenExpiry |-> 0]
ClearedToken == clearToken.token
ClearedExpiry == clearToken.tokenExpiry

\* auth.ts 78-92: both throws come before token and tokenExpiry are assigned
credentialsAfterFailureCleared == clearToken
credentialsAfterFailure == [token |-> token, tokenExpiry |-> tokenExpiry]

\* auth.ts 39-41: a refresh is already in flight, wait for that promise
JoinsPendingNever == FALSE
JoinsPending == refreshPromise # 0

\* auth.ts 46-51: try { await } finally { this.refreshPromise = null }
clearsMarkerOnSuccess(state) == state = "ok"
clearsMarker(state) == state \in {"ok", "failed"}

\* client.ts 130-152: handleErrorResponse
handleErrorResponseTyped401(status, endpoint) ==
  IF status = 404
    THEN NotFoundError("Resource", endpoint)
    ELSE IF status = 401 THEN AuthenticationError("Authentication failed")
                         ELSE GrampsAPIError("http", status, endpoint)
handleErrorResponse(status, endpoint) ==
  IF status = 404
    THEN NotFoundError("Resource", endpoint)
    ELSE GrampsAPIError("http", status, endpoint)

\* client.ts 115: error.name === "AbortError"
isAbortNever(error) == FALSE
isAbort(error) == error.name = "AbortError"

\* client.ts 109-121: the catch of request(); AuthenticationError and
\* NotFoundError are subclasses of GrampsAPIError (errors.ts 16, 23)
catchMapExactClass(error, endpoint) ==
  IF error.name = "GrampsAPIError"
    THEN error
    ELSE IF error.name = "AbortError"
      THEN GrampsAPIError("Request timeout", 0, endpoint)
      ELSE GrampsAPIError(error.msg, 0, endpoint)
catchMap(error, endpoint) ==
  IF error.name \in {"GrampsAPIError", "AuthenticationError", "NotFoundError"}
    THEN error
    ELSE IF isAbort(error)
      THEN GrampsAPIError("Request timeout", 0, endpoint)
      ELSE GrampsAPIError(error.msg, 0, endpoint)

\* JSON.parse: the empty text is not JSON
JSONparse(text) ==
  IF text = "" THEN RawError("Unexpected end of JSON input")
               ELSE Returned([doc |-> text])
EmptyObject == [doc |-> "{}"]

\* JSON.parse / response.json() inside the try of request(): a SyntaxError is
\* caught at client.ts 114-118
parsed(body, endpoint) ==
  LET r == JSONparse(body)
  IN IF r.ok THEN r ELSE catchMap(r, endpoint)

\* client.ts 98-108: decoding of the first response
decodeFirst(status, body, endpoint) ==
  IF status \notin 200..299
    THEN catchMap(handleErrorResponse(status, endpoint), endpoint)
    ELSE IF body = "" THEN Returned(EmptyObject)
                      ELSE parsed(body, endpoint)

\* client.ts 91-95: decoding of the retry's response
decodeRetry(status, body, endpoint) ==
  IF status \notin 200..299
    THEN catchMap(handleErrorResponse(status, endpoint), endpoint)
    ELSE parsed(body, endpoint)

\* client.ts 82: the Authorization header of the retry
retryTokenStale(old, new) == old
retryToken(old, new) == new

\* client.ts 78: the statuses that trigger the refresh-and-retry
retriesOnServerError(attempt, status) == attempt = 1 /\ status \in {401, 500}
retriesOn(attempt, status) == attempt = 1 /\ status = 401

(***************************************************************************)
(* The outcome of a finished call (what it sent, received and returned)    *)
(* stays in the state for one step; the next step of the event loop finds  *)
(* it consumed by its caller.  kept(f, blank) is the field f of the calls  *)
(* still in progress.                                                      *)
(***************************************************************************)
kept(f, blank) == [j \in Procs |-> IF pc[j] = "done" THEN blank ELSE f[j]]

\* which promise a caller awaited in getToken() is remembered for one step
\* after getToken() returned
keptAwait(f, blank) ==
  [j \in Procs |-> IF pc[j] = "awaitToken" THEN f[j] ELSE blank]

\* likewise a settled exchange is remembered for one step only
Settled == [by |-> "", owner |-> 0, state |-> "settled", value |-> NullToken,
            answer |-> NoAnswer, err |-> NoResult]
keptExchanges ==
  [e \in DOMAIN exchanges |->
     IF exchanges[e].state = "pending" THEN exchanges[e] ELSE Settled]

KeepCalls ==
  /\ op' = kept(op, "none")
  /\ awaiting' = keptAwait(awaiting, 0)
  /\ creator' = keptAwait(creator, FALSE)
  /\ forcedEx' = kept(forcedEx, 0)
  /\ sent' = kept(sent, <<>>)
  /\ resp' = kept(resp, <<>>)
  /\ raised' = kept(raised, "")
  /\ result' = kept(result, NoResult)
  /\ exchanges' = keptExchanges

(***************************************************************************)
(* auth.ts 19-23: initialize(config), called once by main() at start-up.   *)
(***************************************************************************)
Initialize ==
  /\ ~config
  /\ config' = TRUE
  /\ token' = NullToken
  /\ tokenExpiry' = 0
  /\ KeepCalls
  /\ UNCHANGED <<refreshPromise, now, pc, travVars, toolVars>>

(***************************************************************************)
(* auth.ts 28-45 (and client.ts 53-75 when the token is served from the    *)
(* cache): caller i invokes getToken(), directly (o = "getToken") or as    *)
(* the first statement of request() (o = "request").                       *)
(***************************************************************************)
GetToken(i, o) ==
  /\ pc[i] = "idle"
  /\ \A j \in Procs : j < i => pc[j] # "idle"   \* callers are numbered in call order
  /\ op' = [kept(op, "none") EXCEPT ![i] = o]
  /\ IF ~config
       THEN /\ result' = [kept(result, NoResult) EXCEPT ![i] =
                            AuthenticationError("Auth manager not initialized")]
            /\ pc' = [pc EXCEPT ![i] = "done"]
            /\ awaiting' = keptAwait(awaiting, 0)
            /\ creator' = keptAwait(creator, FALSE)
            /\ sent' = kept(sent, <<>>)
            /\ exchanges' = keptExchanges
            /\ refreshPromise' = refreshPromise
       ELSE IF cacheHit
         THEN /\ IF o = "getToken"
                   THEN /\ result' = [kept(result, NoResult) EXCEPT ![i] =
                                        Returned(token)]
                        /\ pc' = [pc EXCEPT ![i] = "done"]
                        /\ sent' = kept(sent, <<>>)
                   ELSE /\ sent' = [kept(sent, <<>>) EXCEPT ![i] = <<token.id>>]
                        /\ pc' = [pc EXCEPT ![i] = "fetch1"]
                        /\ result' = kept(result, NoResult)
              /\ awaiting' = keptAwait(awaiting, 0)
              /\ creator' = keptAwait(creator, FALSE)
              /\ exchanges' = keptExchanges
            /\ refreshPromise' = refreshPromise
         ELSE IF JoinsPending
           THEN /\ awaiting' = [keptAwait(awaiting, 0) EXCEPT ![i] = refreshPromise]
                /\ creator' = [keptAwait(creator, FALSE) EXCEPT ![i] = FALSE]
                /\ pc' = [pc EXCEPT ![i] = "awaitToken"]
                /\ sent' = kept(sent, <<>>)
                /\ result' = kept(result, NoResult)
                /\ exchanges' = keptExchanges
            /\ refreshPromise' = refreshPromise
           ELSE /\ Len(exchanges) < MaxExchanges
                /\ exchanges' = Append(keptExchanges, NewExchange(i, "getToken"))
                /\ refreshPromise' = Len(exchanges) + 1
                /\ awaiting' = [keptAwait(awaiting, 0) EXCEPT ![i] = Len(exchanges) + 1]
                /\ creator' = [keptAwait(creator, FALSE) EXCEPT ![i] = TRUE]
                /\ pc' = [pc EXCEPT ![i] = "awaitToken"]
                /\ sent' = kept(sent, <<>>)
                /\ result' = kept(result, NoResult)
  /\ forcedEx' = kept(forcedEx, 0)
  /\ resp' = kept(resp, <<>>)
  /\ raised' = kept(raised, "")
  /\ UNCHANGED <<config, token, tokenExpiry, now, travVars, toolVars>>

(***************************************************************************)
(* What a settled exchange ex means for a caller i that awaits it.         *)
(* auth.ts 46-48 and client.ts 53-75: in getToken() the token is returned  *)
(* (and request() sends its first fetch with it) or the failure is thrown; *)
(* the await of client.ts 53 is outside the try of request().              *)
(***************************************************************************)
tokenPc(i, ex) ==
  IF ex.state = "ok" /\ op[i] = "request" THEN "fetch1" ELSE "done"
tokenSent(i, ex) ==
  IF ex.state = "ok" /\ op[i] = "request" THEN <<ex.value.id>> ELSE sent[i]
tokenResult(i, ex) ==
  IF ex.state = "ok"
    THEN IF op[i] = "getToken" THEN Returned(ex.value) ELSE result[i]
    ELSE ex.err

\* client.ts 80-89, 109-121: the forced refresh returns the new token and the
\* retry is sent, or its failure passes through the catch of request()
forcedPc(i, ex) == IF ex.state = "ok" THEN "fetch2" ELSE "done"
forcedSent(i, ex) ==
  IF ex.state = "ok" THEN Append(sent[i], retryToken(sent[i][1], ex.value.id))
                     ELSE sent[i]
forcedResultWrapped(i, ex) ==
  IF ex.state = "ok" THEN result[i]
                     ELSE GrampsAPIError(ex.err.msg, 0, Endpoint)
forcedResult(i, ex) ==
  IF ex.state = "ok" THEN result[i] ELSE catchMap(ex.err, Endpoint)

(***************************************************************************)
(* auth.ts 78-95, 46-51: the token endpoint answers exchange e.  The rest  *)
(* of refreshToken() runs, then - in the same turn of the event loop - the *)
(* continuation of every caller awaiting the promise: the creator of       *)
(* refreshPromise runs its finally block, each caller proceeds with the    *)
(* token or the failure.                                                   *)
(***************************************************************************)
ExchangeSettles(e, outcome, form, life) ==
  /\ e \in Pending
  /\ (outcome = "ok") <=> (life # 0)
  /\ form # "jwt" => life \in {0, NoExp}    \* no exp claim can be read from it
  /\ LET tk == [id |-> e, form |-> form,
                exp |-> IF life = NoExp THEN NoExp ELSE now \div 1000 + life]
         ex == IF outcome = "ok"
                 THEN [exchanges[e] EXCEPT !.state = "ok", !.value = tk,
                                           !.answer = tokenAnswer(outcome)]
                 ELSE [exchanges[e] EXCEPT !.state = "failed",
                                           !.answer = tokenAnswer(outcome),
                                           !.err = refreshError(outcome)]
         waiters == {i \in Procs : pc[i] = "awaitToken" /\ awaiting[i] = e}
         forcers == {i \in Procs : pc[i] = "awaitForced" /\ forcedEx[i] = e}
     IN /\ exchanges' = [keptExchanges EXCEPT ![e] = ex]
        /\ token' = IF outcome = "ok" THEN tk ELSE credentialsAfterFailure.token
        /\ tokenExpiry' = IF outcome = "ok"
                             THEN extractExpiry(tk, now)
                             ELSE credentialsAfterFailure.tokenExpiry
        /\ refreshPromise' = IF /\ \E i \in waiters : creator[i]
                                 /\ clearsMarker(ex.state)
                               THEN 0 ELSE refreshPromise
        /\ pc' = [i \in Procs |->
                    IF i \in waiters THEN tokenPc(i, ex)
                    ELSE IF i \in forcers THEN forcedPc(i, ex) ELSE pc[i]]
        /\ sent' = [i \in Procs |->
                    IF i \in waiters THEN tokenSent(i, ex)
                    ELSE IF i \in forcers THEN forcedSent(i, ex)
                    ELSE kept(sent, <<>>)[i]]
        /\ result' = [i \in Procs |->
                    IF i \in waiters THEN tokenResult(i, ex)
                    ELSE IF i \in forcers THEN forcedResult(i, ex)
                    ELSE kept(result, NoResult)[i]]
  /\ op' = kept(op, "none")
  /\ awaiting' = keptAwait(awaiting, 0)
  /\ creator' = keptAwait(creator, FALSE)
  /\ forcedEx' = kept(forcedEx, 0)
  /\ resp' = kept(resp, <<>>)
  /\ raised' = kept(raised, "")
  /\ UNCHANGED <<config, now, travVars, toolVars>>

(***************************************************************************)
(* client.ts 70-108: the store answers the first fetch of request i.       *)
(***************************************************************************)
Respond1(i, status, body) ==
  /\ pc[i] = "fetch1"
  /\ resp' = [kept(resp, <<>>) EXCEPT ![i] =
                Append(@, [status |-> status, body |-> body])]
  /\ IF retriesOn(1, status)
       THEN /\ Len(exchanges) < MaxExchanges
            /\ token' = ClearedToken
            /\ tokenExpiry' = ClearedExpiry
            /\ exchanges' = Append(keptExchanges, NewExchange(i, "forced"))
            /\ forcedEx' = [kept(forcedEx, 0) EXCEPT ![i] = Len(exchanges) + 1]
            /\ pc' = [pc EXCEPT ![i] = "awaitForced"]
            /\ result' = kept(result, NoResult)
       ELSE /\ result' = [kept(result, NoResult) EXCEPT ![i] =
                            decodeFirst(status, body, Endpoint)]
            /\ pc' = [pc EXCEPT ![i] = "done"]
            /\ forcedEx' = kept(forcedEx, 0)
            /\ exchanges' = keptExchanges
            /\ UNCHANGED <<token, tokenExpiry>>
  /\ op' = kept(op, "none")
  /\ awaiting' = keptAwait(awaiting, 0)
  /\ creator' = keptAwait(creator, FALSE)
  /\ sent' = kept(sent, <<>>)
  /\ raised' = kept(raised, "")
  /\ UNCHANGED <<config, refreshPromise, now, travVars, toolVars>>

(***************************************************************************)
(* client.ts 84-95: the store answers the retry of request i.              *)
(***************************************************************************)
Respond2(i, status, body) ==
  /\ pc[i] = "fetch2"
  /\ resp' = [kept(resp, <<>>) EXCEPT ![i] =
                Append(@, [status |-> status, body |-> body])]
  /\ result' = [kept(result, NoResult) EXCEPT ![i] =
                  decodeRetry(status, body, Endpoint)]
  /\ pc' = [pc EXCEPT ![i] = "done"]
  /\ op' = kept(op, "none")
  /\ awaiting' = keptAwait(awaiting, 0)
  /\ creator' = keptAwait(creator, FALSE)
  /\ forcedEx' = kept(forcedEx, 0)
  /\ sent' = kept(sent, <<>>)
  /\ raised' = kept(raised, "")
  /\ exchanges' = keptExchanges
  /\ UNCHANGED <<config, token, tokenExpiry, refreshPromise, now, travVars, toolVars>>

\* client.ts 109-124: the catch and the finally of request() make no call to
\* the AuthManager
credentialsAfterCatchCleared == clearToken
credentialsAfterCatch == [token |-> token, tokenExpiry |-> tokenExpiry]

(***************************************************************************)
(* client.ts 67, 109-121: a fetch of request i rejects, by the abort of    *)
(* the timeout or by a network error.                                      *)
(***************************************************************************)
FetchThrows(i, why) ==
  /\ pc[i] \in {"fetch1", "fetch2"}
  /\ raised' = [kept(raised, "") EXCEPT ![i] = why]
  /\ result' = [kept(result, NoResult) EXCEPT ![i] =
       catchMap([RawError("fetch failed") EXCEPT !.name = why], Endpoint)]
  /\ pc' = [pc EXCEPT ![i] = "done"]
  /\ op' = kept(op, "none")
  /\ awaiting' = keptAwait(awaiting, 0)
  /\ creator' = keptAwait(creator, FALSE)
  /\ forcedEx' = kept(forcedEx, 0)
  /\ sent' = kept(sent, <<>>)
  /\ resp' = kept(resp, <<>>)
  /\ exchanges' = keptExchanges
  /\ token' = credentialsAfterCatch.token
  /\ tokenExpiry' = credentialsAfterCatch.tokenExpiry
  /\ UNCHANGED <<config, refreshPromise, now, travVars, toolVars>>

\* Date.now() advances
Tick ==
  /\ now < MaxTicks * 1000
  /\ now' = now + 1000
  /\ KeepCalls
  /\ UNCHANGED <<config, token, tokenExpiry, refreshPromise, pc, travVars, toolVars>>

(***************************************************************************)
(* The record store as the lineage traversals see it (types.ts Person,     *)
(* Family): a person holds parent_family_list and family_list, a family    *)
(* holds father_handle, mother_handle ("" when absent) and child_ref_list. *)
(***************************************************************************)
MaxGen == 4          \* largest accepted generation count the model explores
MaxFail == 2         \* fetches that fail during one traversal

SCHEMA_MAX_GENERATIONS == 10
SCHEMA_DEFAULT_GENERATIONS == 3
NoValue == -1        \* params.generations left undefined

Pn(pfl, fl) == [parent_family_list |-> pfl, family_list |-> fl]
Fm(f, m, ch) == [father_handle |-> f, mother_handle |-> m, child_ref_list |-> ch]

\* H has three real ancestor generations: P1 and M1, P2, P3
GraphChain ==
  [people |-> [h \in {"H", "P1", "M1", "P2", "P3"} |->
      CASE h = "H"  -> Pn(<<"fA">>, <<>>)
        [] h = "P1" -> Pn(<<"fB">>, <<"fA">>)
        [] h = "M1" -> Pn(<<>>, <<"fA">>)
        [] h = "P2" -> Pn(<<"fC">>, <<"fB">>)
        [] h = "P3" -> Pn(<<>>, <<"fC">>)],
   families |-> [f \in {"fA", "fB", "fC"} |->
      CASE f = "fA" -> Fm("P1", "M1", <<"H">>)
        [] f = "fB" -> Fm("P2", "", <<"P1">>)
        [] f = "fC" -> Fm("P3", "", <<"P2">>)]]

\* operator error: A is recorded as the father of the family A is a child of
GraphSelf ==
  [people |-> [h \in {"A", "B"} |->
      CASE h = "A" -> Pn(<<"fA">>, <<"fA">>)
        [] h = "B" -> Pn(<<>>, <<"fA">>)],
   families |-> [f \in {"fA"} |-> Fm("A", "B", <<"A">>)]]

\* Y is both a parent of O and a grandparent of O (through X), and O is
\* recorded as the father of Y: two paths of different lengths, and a cycle
GraphDiamond ==
  [people |-> [h \in {"O", "X", "Y"} |->
      CASE h = "O" -> Pn(<<"f1">>, <<"f3">>)
        [] h = "X" -> Pn(<<"f2">>, <<"f1">>)
        [] h = "Y" -> Pn(<<"f3">>, <<"f1", "f2">>)],
   families |-> [f \in {"f1", "f2", "f3"} |->
      CASE f = "f1" -> Fm("Y", "X", <<"O">>)
        [] f = "f2" -> Fm("Y", "", <<"X">>)
        [] f = "f3" -> Fm("O", "", <<"Y">>)]]

\* P has father D only, D has no parents
GraphShallow ==
  [people |-> [h \in {"P", "D"} |->
      CASE h = "P" -> Pn(<<"F">>, <<>>)
        [] h = "D" -> Pn(<<>>, <<"F">>)],
   families |-> [f \in {"F"} |-> Fm("D", "", <<"P">>)]]

\* the parents of O are siblings: the family f2 is fetched once per sibling
GraphSiblings ==
  [people |-> [h \in {"O", "A", "B", "G"} |->
      CASE h = "O" -> Pn(<<"f1">>, <<>>)
        [] h = "A" -> Pn(<<"f2">>, <<"f1">>)
        [] h = "B" -> Pn(<<"f2">>, <<"f1">>)
        [] h = "G" -> Pn(<<>>, <<"f2">>)],
   families |-> [f \in {"f1", "f2"} |->
      CASE f = "f1" -> Fm("A", "B", <<"O">>)
        [] f = "f2" -> Fm("G", "", <<"A", "B">>)]]

\* a maternal line of four generations above Q0
GraphDeep ==
  [people |-> [h \in {"Q0", "Q1", "Q2", "Q3", "Q4"} |->
      CASE h = "Q0" -> Pn(<<"g1">>, <<>>)
        [] h = "Q1" -> Pn(<<"g2">>, <<"g1">>)
        [] h = "Q2" -> Pn(<<"g3">>, <<"g2">>)
        [] h = "Q3" -> Pn(<<"g4">>, <<"g3">>)
        [] h = "Q4" -> Pn(<<>>, <<"g4">>)],
   families |-> [f \in {"g1", "g2", "g3", "g4"} |->
      CASE f = "g1" -> Fm("", "Q1", <<"Q0">>)
        [] f = "g2" -> Fm("", "Q2", <<"Q1">>)
        [] f = "g3" -> Fm("", "Q3", <<"Q2">>)
        [] f = "g4" -> Fm("", "Q4", <<"Q3">>)]]

Graphs == <<GraphChain, GraphSelf, GraphDiamond, GraphShallow, GraphSiblings,
            GraphDeep>>

Store == Graphs[gid]
People == DOMAIN Store.people

\* the families a person links to in the direction of the traversal
\* (analysis.ts 160-161 parent_family_list, 278-279 family_list)
LinkedFamiliesOf(g, d, h) ==
  IF d = "ancestors" THEN g.people[h].parent_family_list
                     ELSE g.people[h].family_list
LinkedFamilies(h) == LinkedFamiliesOf(Store, dir, h)

\* every fetch of a family one traversal can issue: <<person, family>>
FamilyFetchesOf(g, d) ==
  {pf \in (DOMAIN g.people) \X (DOMAIN g.families) :
     \E k \in DOMAIN LinkedFamiliesOf(g, d, pf[1]) :
        LinkedFamiliesOf(g, d, pf[1])[k] = pf[2]}

FailureKinds == {"NotFoundError", "GrampsAPIError", "Timeout", "AuthenticationError"}

GenInputs == (0..MaxGen) \cup {SCHEMA_MAX_GENERATIONS + 1, NoValue}

\* analysis.ts 13-22: lineageSchema, generations: int, positive, max 10, default 3
schemaDefault(g) == IF g = NoValue THEN SCHEMA_DEFAULT_GENERATIONS ELSE g
\* analysis.ts 18: .max(10)
withinCeilingAlways(g) == TRUE
withinCeiling(g) == g <= SCHEMA_MAX_GENERATIONS
schemaAcceptsZero(g) == g >= 0 /\ withinCeiling(g)
schemaAccepts(g) == g > 0 /\ withinCeiling(g)

\* analysis.ts 142, 167, 177, 287: visited.has(handle)
alreadyVisitedNever(h, vis) == FALSE
alreadyVisited(h, vis) == h \in vis

\* analysis.ts 145, 263: visited.add(currentHandle), before the fetch
markVisitedNever(vis, h) == vis
markVisited(vis, h) == vis \cup {h}

\* analysis.ts 142, 260: gen > generations
beyondBound(gen, bound) == gen > bound

\* analysis.ts 160, 278: gen < generations
expandsInclusive(gen, bound) == gen <= bound
expands(gen, bound) == gen < bound

\* analysis.ts 140, 258: queue.shift()
takeLast(q) == [entry |-> q[Len(q)], rest |-> SubSeq(q, 1, Len(q) - 1)]
takeFirst(q) == [entry |-> Head(q), rest |-> Tail(q)]

\* analysis.ts 186-193, 298-305: catch { /* skip */ } resumes the loop
rethrows(kind) == "error"
swallows(kind) == "loop"

\* analysis.ts 197, 309: nothing was recorded
nothingFoundNever(entries) == FALSE
nothingFound(entries) == Len(entries) = 0

\* analysis.ts 168-173, 178-183, 288-293: the relationship of a relative
\* one generation beyond a person at generation gen
fatherRelCountsFromChild(gen) ==
  IF gen = 0 THEN "Father"
  ELSE IF gen = 1 THEN "Grandfather"
  ELSE ToString(gen) \o "x Great-Grandfather"
fatherRel(gen) ==
  IF gen = 0 THEN "Father"
  ELSE IF gen = 1 THEN "Grandfather"
  ELSE ToString(gen + 1) \o "x Great-Grandfather"
motherRelCountsFromChild(gen) ==
  IF gen = 0 THEN "Mother"
  ELSE IF gen = 1 THEN "Grandmother"
  ELSE ToString(gen) \o "x Great-Grandmother"
motherRel(gen) ==
  IF gen = 0 THEN "Mother"
  ELSE IF gen = 1 THEN "Grandmother"
  ELSE ToString(gen + 1) \o "x Great-Grandmother"
childRel(gen) ==
  IF gen = 0 THEN "Child"
  ELSE IF gen = 1 THEN "Grandchild"
  ELSE ToString(gen + 1) \o "x Great-Grandchild"

Entry(h, g, r) == [handle |-> h, generation |-> g, relationship |-> r]
NoEntry == Entry("", 0, "")

\* analysis.ts 167-185 / 285-297: the queue entries pushed for one fetched family
Discovered(d, family, gen, vis) ==
  IF d = "ancestors"
    THEN (IF family.father_handle # "" /\ ~alreadyVisited(family.father_handle, vis)
            THEN <<Entry(family.father_handle, gen + 1, fatherRel(gen))>>
            ELSE <<>>)
         \o
         (IF family.mother_handle # "" /\ ~alreadyVisited(family.mother_handle, vis)
            THEN <<Entry(family.mother_handle, gen + 1, motherRel(gen))>>
            ELSE <<>>)
    ELSE LET refs == SelectSeq(family.child_ref_list,
                               LAMBDA c : c # "" /\ ~alreadyVisited(c, vis))
         IN [k \in 1..Len(refs) |-> Entry(refs[k], gen + 1, childRel(gen))]

\* analysis.ts 196-236 / 308-348: the formatted result
NoOutput == [status |-> "none", total_count |-> 0, generations_retrieved |-> 0,
             groups |-> <<>>]
formatOutputEveryGeneration(entries, bound) ==
  IF nothingFound(entries)
    THEN [status |-> "empty", total_count |-> 0, generations_retrieved |-> 0,
          groups |-> <<>>]
    ELSE [status |-> "success",
          total_count |-> Len(entries),
          generations_retrieved |-> bound,
          groups |-> [g \in 0..bound |->
                        SelectSeq(entries, LAMBDA a : a.generation = g)]]
formatOutput(entries, bound) ==
  IF nothingFound(entries)
    THEN [status |-> "empty", total_count |-> 0, generations_retrieved |-> 0,
          groups |-> <<>>]
    ELSE [status |-> "success",
          total_count |-> Len(entries),
          generations_retrieved |-> bound,
          groups |-> [g \in {x \in 0..bound :
                               \E k \in 1..Len(entries) : entries[k].generation = x}
                      |-> SelectSeq(entries, LAMBDA a : a.generation = g)]]

(***************************************************************************)
(* analysis.ts 127-137 / 245-255: lineageSchema.parse(params), then the    *)
(* queue and the visited set are created.                                  *)
(***************************************************************************)
Parse ==
  /\ tpc = "start"
  /\ IF schemaAccepts(schemaDefault(genParam))
       THEN /\ generations' = schemaDefault(genParam)
            /\ queue' = <<Entry(origin, 0, "Self")>>
            /\ tpc' = "loop"
            /\ output' = output
       ELSE /\ tpc' = "error"
            /\ output' = [NoOutput EXCEPT !.status = "ZodError"]
            /\ UNCHANGED <<generations, queue>>
  /\ UNCHANGED <<dir, gid, origin, genParam, visited, found, cur, pendingFams,
                 fetched, failP, failF, authVars, toolVars>>

(***************************************************************************)
(* analysis.ts 139-151 / 257-269: one entry leaves the queue; unless it is *)
(* skipped, its handle is marked visited and its person is fetched.        *)
(***************************************************************************)
Dequeue ==
  /\ tpc = "loop"
  /\ queue # <<>>
  /\ LET t == takeFirst(queue)
     IN /\ queue' = t.rest
        /\ IF alreadyVisited(t.entry.handle, visited)
              \/ beyondBound(t.entry.generation, generations)
             THEN UNCHANGED <<tpc, visited, cur, fetched>>
             ELSE /\ visited' = markVisited(visited, t.entry.handle)
                  /\ cur' = t.entry
                  /\ fetched' = Append(fetched,
                       [kind |-> "person", handle |-> t.entry.handle,
                        gen |-> t.entry.generation])
                  /\ tpc' = "person"
  /\ UNCHANGED <<dir, gid, origin, genParam, generations, found, pendingFams,
                 failP, failF, output, authVars, toolVars>>

\* the first of the families still to fetch for cur is requested
FetchFamily(fams) ==
  IF fams = <<>>
    THEN /\ tpc' = "loop"
         /\ fetched' = fetched
    ELSE /\ tpc' = "family"
         /\ fetched' = Append(fetched,
              [kind |-> "family", handle |-> Head(fams), gen |-> cur.generation])

(***************************************************************************)
(* analysis.ts 149-161, 191-193 / 267-279, 303-305: the person fetch       *)
(* settles; outcome is "ok" or the kind of failure.                        *)
(***************************************************************************)
PersonResponds(outcome) ==
  /\ tpc = "person"
  /\ (outcome = "ok") <=> (cur.handle \notin failP)
  /\ IF outcome = "ok"
       THEN /\ found' = Append(found, cur)
            /\ IF expands(cur.generation, generations)
                 THEN /\ pendingFams' = LinkedFamilies(cur.handle)
                      /\ FetchFamily(LinkedFamilies(cur.handle))
                 ELSE /\ pendingFams' = <<>>
                      /\ tpc' = "loop"
                      /\ fetched' = fetched
       ELSE /\ tpc' = swallows(outcome)
            /\ UNCHANGED <<found, pendingFams, fetched>>
  /\ UNCHANGED <<dir, gid, origin, genParam, generations, queue, visited, cur,
                 failP, failF, output, authVars, toolVars>>

(***************************************************************************)
(* analysis.ts 162-189 / 280-301: the fetch of the next family of cur      *)
(* settles and its relatives are queued; then the next family is fetched.  *)
(***************************************************************************)
FamilyResponds(outcome) ==
  /\ tpc = "family"
  /\ (outcome = "ok") <=> (<<cur.handle, Head(pendingFams)>> \notin failF)
  /\ IF outcome = "ok"
       THEN /\ queue' = queue \o Discovered(dir, Store.families[Head(pendingFams)],
                                            cur.generation, visited)
            /\ pendingFams' = Tail(pendingFams)
            /\ FetchFamily(Tail(pendingFams))
       ELSE IF swallows(outcome) = "loop"
         THEN /\ queue' = queue
              /\ pendingFams' = Tail(pendingFams)
              /\ FetchFamily(Tail(pendingFams))
         ELSE /\ tpc' = "error"
              /\ UNCHANGED <<queue, pendingFams, fetched>>
  /\ UNCHANGED <<dir, gid, origin, genParam, generations, visited, found, cur,
                 failP, failF, output, authVars, toolVars>>

(***************************************************************************)
(* analysis.ts 196-236 / 308-348: the queue is empty, the result is built. *)
(***************************************************************************)
Finish ==
  /\ tpc = "loop"
  /\ queue = <<>>
  /\ output' = formatOutput(found, generations)
  /\ tpc' = "done"
  /\ UNCHANGED <<dir, gid, origin, genParam, generations, queue, visited, found,
                 cur, pendingFams, fetched, failP, failF, authVars, toolVars>>

(***************************************************************************)
(* tools/search.ts 100-142: grampsGet.  The entities of the store carry a  *)
(* handle and a Gramps ID; GET <endpoint><handle> answers 200 with the     *)
(* entity of that handle and 404 when there is none, GET <endpoint> with   *)
(* the gramps_id filter answers the list of the entities of that ID.       *)
(***************************************************************************)
EntityEndpoint == "/people/"
Entities ==
  {[handle |-> "h1", gramps_id |-> "I0001"],
   [handle |-> "h2", gramps_id |-> "I0404"],
   [handle |-> "h3", gramps_id |-> "I0003"]}
\* what a caller passes as handle: handles, Gramps IDs, and unknown words
GetInputs == {"h1", "h2", "I0001", "I0404", "I0003", "zz"}
\* the texts of the model that contain the characters 404
Has404 == {"I0404"}

NoEntity == [handle |-> "", gramps_id |-> ""]
byHandle(store, h) == {e \in store : e.handle = h}
byGrampsId(store, id) == {e \in store : e.gramps_id = id}

\* search.ts 113: error.message.includes("404"); the messages of this model
\* are "<entity> not found: <endpoint><identifier>" and the status texts
includes404(error) ==
  \E id \in Has404 :
    error.msg = NotFoundError("Resource", EntityEndpoint \o id).msg

GetIdle ==
  /\ gpc = "idle"
  /\ gInput = ""
  /\ gStore = {}
  /\ gReqs = <<>>
  /\ gOut = [status |-> "none", entity |-> NoEntity, error |-> NoResult]

GetStart ==
  /\ gpc = "start"
  /\ gInput \in GetInputs
  /\ gStore \in SUBSET Entities
  /\ gReqs = <<>>
  /\ gOut = [status |-> "none", entity |-> NoEntity, error |-> NoResult]

\* search.ts 109-110: the lookup by handle is sent
GetByHandle ==
  /\ gpc = "start"
  /\ gReqs' = Append(gReqs, [by |-> "handle", id |-> gInput])
  /\ gpc' = "byHandle"
  /\ UNCHANGED <<gInput, gStore, gOut, authVars, travVars, cfgVars, famVars>>

\* search.ts 110-141: the lookup by handle is answered (client.ts 98-108
\* decodes the answer); on a failure whose message includes "404" the search
\* by Gramps ID is sent, any other failure is rethrown
GetByHandleResponds(status) ==
  /\ gpc = "byHandle"
  /\ status \in {200, 404} => (status = 200 <=> byHandle(gStore, gInput) # {})
  /\ LET r == decodeFirst(status, "docA", EntityEndpoint \o gInput)
     IN IF r.ok
          THEN /\ gOut' = [status |-> "success",
                           entity |-> CHOOSE e \in byHandle(gStore, gInput) : TRUE,
                           error |-> NoResult]
               /\ gpc' = "done"
               /\ gReqs' = gReqs
          ELSE IF includes404(r)
            THEN /\ gReqs' = Append(gReqs, [by |-> "gramps_id", id |-> gInput])
                 /\ gpc' = "byId"
                 /\ gOut' = gOut
            ELSE /\ gOut' = [status |-> "error", entity |-> NoEntity, error |-> r]
                 /\ gpc' = "done"
                 /\ gReqs' = gReqs
  /\ UNCHANGED <<gInput, gStore, authVars, travVars, cfgVars, famVars>>

\* search.ts 114-133: the search by Gramps ID is answered
GetByIdResponds(status) ==
  /\ gpc = "byId"
  /\ LET r == decodeFirst(status, "docA", EntityEndpoint)
         hits == byGrampsId(gStore, gInput)
     IN gOut' = IF ~r.ok
                  THEN [status |-> "error", entity |-> NoEntity, error |-> r]
                  ELSE IF hits # {}
                    THEN [status |-> "success",
                          entity |-> CHOOSE e \in hits : TRUE,
                          error |-> NoResult]
                    ELSE [status |-> "empty", entity |-> NoEntity,
                          error |-> NoResult]
  /\ gpc' = "done"
  /\ UNCHANGED <<gInput, gStore, gReqs, authVars, travVars, cfgVars, famVars>>

(***************************************************************************)
(* config.ts 11-40: loadConfig.  A text is a sequence of characters; a     *)
(* variable of the environment is unset or holds a text.                   *)
(***************************************************************************)
MaxUrlLen == 3       \* longest GRAMPS_API_URL the model explores

EnvNames == <<"GRAMPS_API_URL", "GRAMPS_USERNAME", "GRAMPS_PASSWORD">>
Unset == [set |-> FALSE, val |-> <<>>]
Holds(text) == [set |-> TRUE, val |-> text]

RECURSIVE Texts(_, _)
Texts(chars, n) ==
  IF n = 0 THEN {<<>>}
  ELSE Texts(chars, n - 1) \cup
       {Append(t, c) : t \in Texts(chars, n - 1), c \in chars}

UrlValues == {Unset} \cup {Holds(t) : t \in Texts({"h", "/"}, MaxUrlLen)}
WordValues == {Unset, Holds(<<>>), Holds(<<"u">>)}

\* config.ts 18-20: !value is true for undefined and for the empty string
falsy(v) == ~v.set \/ v.val = <<>>

\* config.ts 16-20: the names pushed to missing, in order
missingNames(e) ==
  SelectSeq(EnvNames, LAMBDA name : falsy(e[name]))

\* config.ts 34: apiUrl.replace(/\/+$/, "")
RECURSIVE stripTrailingSlashes(_)
stripOneTrailingSlash(text) ==
  IF text # <<>> /\ text[Len(text)] = "/"
    THEN SubSeq(text, 1, Len(text) - 1)
    ELSE text
stripTrailingSlashes(text) ==
  IF text # <<>> /\ text[Len(text)] = "/"
    THEN stripTrailingSlashes(SubSeq(text, 1, Len(text) - 1))
    ELSE text

NoConfig == [apiUrl |-> <<>>, username |-> <<>>, password |-> <<>>]
CfgNone == [failed |-> FALSE, missing |-> <<>>, config |-> NoConfig]

CfgIdle ==
  /\ cpc = "idle"
  /\ env = [name \in {EnvNames[k] : k \in 1..3} |-> Unset]
  /\ cfgOut = CfgNone

CfgStart ==
  /\ cpc = "start"
  /\ env \in [{EnvNames[k] : k \in 1..3} -> UrlValues \cup WordValues]
  /\ env["GRAMPS_API_URL"] \in UrlValues
  /\ env["GRAMPS_USERNAME"] \in WordValues
  /\ env["GRAMPS_PASSWORD"] \in WordValues
  /\ cfgOut = CfgNone

loadConfig ==
  /\ cpc = "start"
  /\ cfgOut' =
       IF Len(missingNames(env)) > 0
         THEN [failed |-> TRUE, missing |-> missingNames(env), config |-> NoConfig]
         ELSE [failed |-> FALSE, missing |-> <<>>,
               config |-> [apiUrl |-> stripTrailingSlashes(env["GRAMPS_API_URL"].val),
                           username |-> env["GRAMPS_USERNAME"].val,
                           password |-> env["GRAMPS_PASSWORD"].val]]
  /\ cpc' = "done"
  /\ UNCHANGED <<env, authVars, travVars, getVars, famVars>>

(***************************************************************************)
(* gramps_add_child_to_family (tools/convenience.ts 23-83) and             *)
(* gramps_update_family (tools/update.ts 218-264) on one family of the     *)
(* store.  A child reference is its ref, the handle of the child; each     *)
(* call is an async function, so calls interleave at their awaits.         *)
(***************************************************************************)
NCalls == 2          \* calls of the two tools the model explores
FamilyCalls == 1..NCalls
Children == {"c1", "c2"}
NoChild == ""                  \* add_child or remove_child is not given

\* the optional parameter child_ref_list of gramps_update_family
NotGiven == [given |-> FALSE, list |-> <<>>]
Given(l) == [given |-> TRUE, list |-> l]
ReplacementLists == {<<"c2">>, <<"c1", "c1">>}

\* the child lists the family has before the calls
StoredLists == {<<>>, <<"c1">>, <<"c2", "c1">>}

NoInput == [tool |-> "", child_handle |-> NoChild, add_child |-> NoChild,
            remove_child |-> NoChild, child_ref_list |-> NotGiven]
FamilyInputs ==
  {[NoInput EXCEPT !.tool = "add_child_to_family", !.child_handle = c] :
     c \in Children}
  \cup
  {[NoInput EXCEPT !.tool = "update_family", !.add_child = a,
                   !.remove_child = r, !.child_ref_list = l] :
     a \in Children \cup {NoChild}, r \in {NoChild, "c1"},
     l \in {NotGiven} \cup {Given(x) : x \in ReplacementLists}}

GetFamily == [method |-> "GET", child_ref_list |-> <<>>]
PutFamily(list) == [method |-> "PUT", child_ref_list |-> list]

\* convenience.ts 32-33: existingChildren.some((c) => c.ref === child_handle)
alreadyExistsNever(existingChildren, child_handle) == FALSE
alreadyExists(existingChildren, child_handle) ==
  \E k \in DOMAIN existingChildren : existingChildren[k] = child_handle

\* update.ts 259: childRefs.some((c) => c.ref === add_child.ref)
exists(childRefs, ref) == \E k \in DOMAIN childRefs : childRefs[k] = ref

\* update.ts 249-255: the replacement list or else the existing one, without
\* remove_child when that is given
withoutRemoved(in, existing) ==
  LET base == IF in.child_ref_list.given THEN in.child_ref_list.list
                                         ELSE existing
  IN IF in.remove_child # NoChild
       THEN SelectSeq(base, LAMBDA c : c # in.remove_child)
       ELSE base

\* update.ts 249-264: the child_ref_list of updatedFamily
childRefs(in, existing) ==
  LET refs == withoutRemoved(in, existing)
  IN IF in.add_child # NoChild /\ ~exists(refs, in.add_child)
       THEN Append(refs, in.add_child)
       ELSE refs

FamIdle ==
  /\ fpc = [i \in FamilyCalls |-> "idle"]
  /\ fIn = [i \in FamilyCalls |-> NoInput]
  /\ fStore = <<>>
  /\ fRead = [i \in FamilyCalls |-> <<>>]
  /\ fReqs = [i \in FamilyCalls |-> <<>>]
  /\ fOut = [i \in FamilyCalls |-> "none"]

FamStart ==
  /\ fpc = [i \in FamilyCalls |-> "idle"]
  /\ fIn = [i \in FamilyCalls |-> NoInput]
  /\ fStore \in StoredLists
  /\ fRead = [i \in FamilyCalls |-> <<>>]
  /\ fReqs = [i \in FamilyCalls |-> <<>>]
  /\ fOut = [i \in FamilyCalls |-> "none"]

\* convenience.ts 26-29, update.ts 221-225: call i is made and sends its GET
FamilyCall(i, in) ==
  /\ fpc[i] = "idle"
  /\ \A j \in FamilyCalls : j < i => fpc[j] # "idle"   \* numbered in call order
  /\ fIn' = [fIn EXCEPT ![i] = in]
  /\ fReqs' = [fReqs EXCEPT ![i] = <<GetFamily>>]
  /\ fpc' = [fpc EXCEPT ![i] = "get"]
  /\ UNCHANGED <<fStore, fRead, fOut, authVars, travVars, getVars, cfgVars>>

\* convenience.ts 29-83, update.ts 225-264: the GET of call i is answered; a
\* failure is thrown to the caller, otherwise the call returns without a PUT
\* or sends the PUT of the updated family
FamilyGetResponds(i, status) ==
  /\ fpc[i] = "get"
  /\ IF status # 200
       THEN /\ fOut' = [fOut EXCEPT ![i] = "get failed"]
            /\ fpc' = [fpc EXCEPT ![i] = "done"]
            /\ UNCHANGED <<fRead, fReqs>>
       ELSE /\ fRead' = [fRead EXCEPT ![i] = fStore]
            /\ IF fIn[i].tool = "add_child_to_family"
                 THEN IF alreadyExists(fStore, fIn[i].child_handle)
                        THEN /\ fOut' = [fOut EXCEPT ![i] = "already in family"]
                             /\ fpc' = [fpc EXCEPT ![i] = "done"]
                             /\ UNCHANGED fReqs
                        ELSE /\ fReqs' = [fReqs EXCEPT ![i] =
                                  Append(@, PutFamily(
                                    Append(fStore, fIn[i].child_handle)))]
                             /\ fpc' = [fpc EXCEPT ![i] = "put"]
                             /\ UNCHANGED fOut
                 ELSE /\ fReqs' = [fReqs EXCEPT ![i] =
                           Append(@, PutFamily(childRefs(fIn[i], fStore)))]
                      /\ fpc' = [fpc EXCEPT ![i] = "put"]
                      /\ UNCHANGED fOut
  /\ UNCHANGED <<fIn, fStore, authVars, travVars, getVars, cfgVars>>

\* convenience.ts 80-110, update.ts 300-330: the store answers the PUT of
\* call i; an accepted PUT replaces the family
FamilyPutResponds(i, status) ==
  /\ fpc[i] = "put"
  /\ IF status = 200
       THEN /\ fStore' = fReqs[i][Len(fReqs[i])].child_ref_list
            /\ fOut' = [fOut EXCEPT ![i] = "updated"]
       ELSE /\ fOut' = [fOut EXCEPT ![i] = "put failed"]
            /\ UNCHANGED fStore
  /\ fpc' = [fpc EXCEPT ![i] = "done"]
  /\ UNCHANGED <<fIn, fRead, fReqs, authVars, travVars, getVars, cfgVars>>

ToolsIdle == GetIdle /\ CfgIdle /\ FamIdle

(***************************************************************************)
(* Initial states and specifications.                                      *)
(***************************************************************************)
AuthStart ==
  /\ config = FALSE
  /\ token = NullToken
  /\ tokenExpiry = 0
  /\ refreshPromise = 0
  /\ now = 0
  /\ exchanges = <<>>
  /\ pc = [i \in Procs |-> "idle"]
  /\ op = [i \in Procs |-> "none"]
  /\ awaiting = [i \in Procs |-> 0]
  /\ creator = [i \in Procs |-> FALSE]
  /\ forcedEx = [i \in Procs |-> 0]
  /\ sent = [i \in Procs |-> <<>>]
  /\ resp = [i \in Procs |-> <<>>]
  /\ raised = [i \in Procs |-> ""]
  /\ result = [i \in Procs |-> NoResult]

TravLocals ==
  /\ generations = 0
  /\ queue = <<>>
  /\ visited = {}
  /\ found = <<>>
  /\ cur = NoEntry
  /\ pendingFams = <<>>
  /\ fetched = <<>>
  /\ output = NoOutput

TravIdle ==
  /\ tpc = "idle"
  /\ dir = "ancestors"
  /\ gid = 1
  /\ origin = "H"
  /\ genParam = NoValue
  /\ failP = {}
  /\ failF = {}
  /\ TravLocals

TravStart ==
  /\ tpc = "start"
  /\ dir \in {"ancestors", "descendants"}
  /\ gid \in 1..Len(Graphs)
  /\ origin \in DOMAIN Graphs[gid].people
  /\ genParam \in GenInputs
  /\ failP \in SUBSET (DOMAIN Graphs[gid].people)
  /\ failF \in SUBSET FamilyFetchesOf(Graphs[gid], dir)
  /\ Cardinality(failP) + Cardinality(failF) <= MaxFail
  /\ TravLocals

Init == AuthStart /\ TravIdle /\ ToolsIdle

Next ==
  \/ Initialize
  \/ \E i \in Procs, o \in {"getToken", "request"} : GetToken(i, o)
  \/ \E e \in 1..MaxExchanges, form \in TokenForms, life \in Lifetimes :
        ExchangeSettles(e, "ok", form, life)
  \/ \E e \in 1..MaxExchanges, outcome \in ExchangeFailures :
        ExchangeSettles(e, outcome, "jwt", 0)
  \/ \E i \in Procs, r \in Responses : Respond1(i, r.status, r.body)
  \/ \E i \in Procs, r \in Responses : Respond2(i, r.status, r.body)
  \/ \E i \in Procs, why \in {"AbortError", "TypeError"} : FetchThrows(i, why)
  \/ Tick

Spec == Init /\ [][Next]_vars

InitTrav == AuthStart /\ TravStart /\ ToolsIdle

NextTrav ==
  \/ Parse
  \/ Dequeue
  \/ \E outcome \in {"ok"} \cup FailureKinds : PersonResponds(outcome)
  \/ \E outcome \in {"ok"} \cup FailureKinds : FamilyResponds(outcome)
  \/ Finish

SpecTrav == InitTrav /\ [][NextTrav]_vars

\* the event loop runs every continuation that is ready
SpecTravFair == SpecTrav /\ WF_vars(NextTrav)

InitGet == AuthStart /\ TravIdle /\ GetStart /\ CfgIdle /\ FamIdle

NextGet ==
  \/ GetByHandle
  \/ \E status \in {200, 404, 500} : GetByHandleResponds(status)
  \/ \E status \in {200, 500} : GetByIdResponds(status)

SpecGet == InitGet /\ [][NextGet]_vars

InitConfig == AuthStart /\ TravIdle /\ GetIdle /\ CfgStart /\ FamIdle

NextConfig == loadConfig

SpecConfig == InitConfig /\ [][NextConfig]_vars

InitFamily == AuthStart /\ TravIdle /\ GetIdle /\ CfgIdle /\ FamStart

NextFamily ==
  \/ \E i \in FamilyCalls, in \in FamilyInputs : FamilyCall(i, in)
  \/ \E i \in FamilyCalls, status \in {200, 404} : FamilyGetResponds(i, status)
  \/ \E i \in FamilyCalls, status \in {200, 500} : FamilyPutResponds(i, status)

SpecFamily == InitFamily /\ [][NextFamily]_vars


(***************************************************************************)
(* Properties of the credential manager and the transport (Spec).          *)
(***************************************************************************)

\* the identity of the token getToken() handed to caller i
received(i) == IF op[i] = "getToken" THEN result[i].value.id ELSE sent[i][1]

\* caller i awaited a promise in getToken() and got its token
ReturnedFromRefresh(i) ==
  /\ awaiting[i] # 0
  /\ IF op[i] = "getToken" THEN pc[i] = "done" /\ result[i].ok
                           ELSE Len(sent[i]) >= 1

\* the HTTP attempts request i made against its endpoint
attempts(i) == Len(sent[i])

\* request i was answered first and then second
Answered(i, first, second) ==
  /\ Len(resp[i]) = 2
  /\ resp[i][1].status = first
  /\ resp[i][2].status = second

\* (the token of exchange e carries the identity e)
\* C1 - single-flight: the getToken() calls that overlap while no valid token
\* is cached share one credential exchange (at most one exchange started by
\* getToken() is pending, all callers suspended in getToken() await the same
\* one) and, when it succeeds, each of them receives the token it produced.
C1_SingleFlight ==
  /\ Cardinality({e \in Pending : exchanges[e].by = "getToken"}) <= 1
  /\ \A i, j \in Procs :
       pc[i] = "awaitToken" /\ pc[j] = "awaitToken" => awaiting[i] = awaiting[j]
  /\ \A i \in Procs :
       ReturnedFromRefresh(i) =>
         /\ received(i) = awaiting[i]
         /\ exchanges[awaiting[i]].state = "ok"
         /\ received(i) = exchanges[awaiting[i]].value.id
  /\ \A i, j \in Procs :
       /\ ReturnedFromRefresh(i) /\ ReturnedFromRefresh(j)
       /\ awaiting[i] = awaiting[j]
       => received(i) = received(j)

\* two callers overlapped in getToken(), one exchange served both
C1_Witness ==
  \E i, j \in Procs :
    /\ i # j
    /\ ReturnedFromRefresh(i) /\ ReturnedFromRefresh(j)
    /\ awaiting[i] = awaiting[j]
    /\ creator[i] /\ ~creator[j]
    /\ received(i) = received(j)
    /\ Len(exchanges) = 1

\* C2 - at most one credential exchange is outstanding at any time.
C2_AtMostOneRefresh == Cardinality(Pending) <= 1

\* C3 as claimed - a request answered 401 and, on the retry, 401 again fails
\* as an AuthenticationError after exactly 2 attempts.
C3_SecondRejectionIsAuthenticationError ==
  \A i \in Procs :
    Answered(i, 401, 401) =>
      /\ pc[i] = "done"
      /\ attempts(i) = 2
      /\ ~result[i].ok
      /\ result[i].name = "AuthenticationError"

\* C3 as amended - a request answered 401 and, on the retry, 401 again fails
\* after exactly 2 attempts and no further one, with the GrampsAPIError of any
\* other non-2xx status: it carries status 401 and the endpoint.
C3_SecondRejectionIsApiError ==
  \A i \in Procs :
    Answered(i, 401, 401) =>
      /\ pc[i] = "done"
      /\ attempts(i) = 2
      /\ ~result[i].ok
      /\ result[i].name = "GrampsAPIError"
      /\ result[i].statusCode = 401
      /\ result[i].endpoint = Endpoint

C3_Witness ==
  \E i \in Procs :
    /\ Answered(i, 401, 401)
    /\ pc[i] = "done"
    /\ sent[i][2] = forcedEx[i]

\* the value a 2xx body decodes to: the empty result for the empty body
decoded(body) == IF body = "" THEN EmptyObject ELSE [doc |-> body]

\* C4 - a request answered 401 and, on the retry, 200 succeeds after exactly
\* 2 attempts, sent the retry with the token of the forced refresh and not
\* with the rejected one, and returns the body of the second response.
C4_RetrySucceeds ==
  \A i \in Procs :
    Answered(i, 401, 200) =>
      /\ pc[i] = "done"
      /\ attempts(i) = 2
      /\ sent[i][2] = forcedEx[i]
      /\ sent[i][2] # sent[i][1]
      /\ result[i].ok
      /\ result[i].value = decoded(resp[i][2].body)

\* caller i calls getToken() in this step while a token with a readable exp
\* claim is cached
CallsWithCachedExp(i) ==
  /\ pc[i] = "idle" /\ pc'[i] # "idle"
  /\ token # NullToken /\ token.exp # NoExp

\* the call is answered from the cache, with the cached token
ServedFromCache(i) ==
  \/ op'[i] = "getToken" /\ pc'[i] = "done" /\ result'[i] = Returned(token)
  \/ op'[i] = "request" /\ pc'[i] = "fetch1" /\ sent'[i] = <<token.id>>

\* the call waits for a credential exchange instead
WaitsForRefresh(i) == pc'[i] = "awaitToken" /\ refreshPromise' # 0

\* C12 - expiry buffer: with a cached token whose exp claim is T (seconds),
\* getToken() serves the cached token at T - 31 s, and at every time from
\* T - 30 s onward it does not: the caller awaits a refresh.
C12_ExpiryBuffer ==
  [][\A i \in Procs :
       CallsWithCachedExp(i) =>
         /\ now = (token.exp - 31) * 1000 => ServedFromCache(i)
         /\ now >= (token.exp - 30) * 1000 =>
               ~ServedFromCache(i) /\ WaitsForRefresh(i)]_vars

\* a caller started a refresh at exactly T - 30 s of the cached token
C12_Witness ==
  \E i \in Procs :
    /\ pc[i] = "awaitToken" /\ creator[i]
    /\ token # NullToken /\ token.exp # NoExp
    /\ token.id # awaiting[i]
    /\ now = (token.exp - 30) * 1000
    /\ now > 0

\* exchange e has just returned a token whose exp claim cannot be decoded
StoredMalformed(e) ==
  /\ exchanges[e].state = "ok"
  /\ exchanges[e].value.form \in {"short", "notjson"}

\* C13 as claimed - a refresh that returns a token with fewer than three
\* segments or a non-JSON middle segment does not fail and stores a cached
\* expiry of now + 1 hour.
C13_FallbackIsOneHour ==
  \A e \in DOMAIN exchanges :
    StoredMalformed(e) =>
      /\ token = exchanges[e].value
      /\ tokenExpiry = now + DEFAULT_EXPIRY_MS
      /\ \A i \in Procs : awaiting[i] = e /\ pc[i] = "done" => result[i].ok

\* C13 as amended - such a refresh does not fail, caches the token and
\* stores a cached expiry of now + 1 hour minus the 30 s buffer.
C13_FallbackIsOneHourLessBuffer ==
  \A e \in DOMAIN exchanges :
    StoredMalformed(e) =>
      /\ token = exchanges[e].value
      /\ tokenExpiry = now + DEFAULT_EXPIRY_MS - TOKEN_EXPIRY_BUFFER_MS
      /\ hasValidToken
      /\ \A i \in Procs : awaiting[i] = e /\ pc[i] = "done" => result[i].ok

C13_Witness ==
  \E e \in DOMAIN exchanges, i \in Procs :
    /\ StoredMalformed(e)
    /\ awaiting[i] = e /\ pc[i] = "done" /\ op[i] = "getToken"
    /\ result[i] = Returned(token)
    /\ tokenExpiry = now + DEFAULT_EXPIRY_MS - TOKEN_EXPIRY_BUFFER_MS
\* the exchange behind the shared promise of getToken() has just failed
FailedShared(e) ==
  exchanges[e].state = "failed" /\ exchanges[e].by = "getToken"

\* caller i calls getToken() in this step
Calls(i) == pc[i] = "idle" /\ pc'[i] # "idle"

\* C14 - when the shared in-flight refresh fails, every getToken() caller
\* that awaited it gets that same failure and the in-flight marker is cleared;
\* the marker never names an exchange that is over, no caller is left waiting
\* for one, and a getToken() called after the failure (no valid token cached)
\* starts a new credential exchange.
C14_FailureIsSharedAndCleared ==
  /\ [](\A e \in DOMAIN exchanges :
          FailedShared(e) =>
            /\ refreshPromise = 0
            /\ \A i \in Procs :
                 awaiting[i] = e =>
                   /\ pc[i] = "done"
                   /\ ~result[i].ok
                   /\ result[i] = exchanges[e].err)
  /\ [](refreshPromise # 0 => exchanges[refreshPromise].state = "pending")
  /\ [](\A i \in Procs :
          pc[i] = "awaitToken" => exchanges[awaiting[i]].state = "pending")
  /\ [][\A i \in Procs, e \in DOMAIN exchanges :
          FailedShared(e) /\ Calls(i) /\ ~hasValidToken =>
            /\ pc'[i] = "awaitToken" /\ creator'[i]
            /\ awaiting'[i] = Len(exchanges) + 1
            /\ refreshPromise' = awaiting'[i]
            /\ exchanges'[awaiting'[i]] = NewExchange(i, "getToken")]_vars

\* two callers shared a refresh that failed, and both got its failure
C14_Witness ==
  \E e \in DOMAIN exchanges, i, j \in Procs :
    /\ i # j
    /\ FailedShared(e)
    /\ awaiting[i] = e /\ awaiting[j] = e
    /\ creator[i] /\ ~creator[j]
    /\ result[i] = exchanges[e].err /\ result[j] = exchanges[e].err
    /\ refreshPromise = 0
\* request i calls clearToken() in this step (client.ts 79)
Clears(i) == pc[i] = "fetch1" /\ pc'[i] = "awaitForced"

\* a request cleared the cache and no exchange has stored a token since
ClearedAndNotRefilled ==
  /\ token = NullToken
  /\ \E j \in Procs : pc[j] = "awaitForced"

\* C15 - clearToken() drops the cached token and resets the expiry to a time
\* that is not in the future, and a getToken() called after it, before any
\* exchange stored a new token, is not answered from the cache: the caller
\* awaits a credential exchange.
C15_ClearForcesRefresh ==
  /\ [][\A i \in Procs :
          Clears(i) =>
            /\ token' = NullToken
            /\ tokenExpiry' = 0 /\ tokenExpiry' <= now'
            /\ ~hasValidToken']_vars
  /\ [][\A i \in Procs :
          Calls(i) /\ ClearedAndNotRefilled =>
            /\ ~ServedFromCache(i)
            /\ WaitsForRefresh(i)
            /\ exchanges'[awaiting'[i]].state = "pending"]_vars

\* a request dropped the token it had sent, and the next getToken() started a
\* credential exchange
C15_Witness ==
  \E i, j \in Procs :
    /\ pc[j] = "awaitForced" /\ Len(sent[j]) = 1 /\ sent[j][1] > 0
    /\ token = NullToken
    /\ pc[i] = "awaitToken" /\ creator[i]
    /\ awaiting[i] > forcedEx[j]
\* request i is over and the last response it received was st
LastStatus(i, st) ==
  /\ op[i] = "request" /\ pc[i] = "done"
  /\ Len(resp[i]) >= 1
  /\ resp[i][Len(resp[i])].status = st

\* the non-2xx statuses that are not an authentication rejection
OtherFailureStatuses == Statuses \ ((200..299) \cup {401})

\* C16 as claimed - every non-2xx status other than an authentication
\* rejection, 404 included, fails the request with a typed API failure that
\* carries the HTTP status code and the endpoint of the request.
C16_CarriesStatusAndEndpoint ==
  \A i \in Procs, st \in OtherFailureStatuses :
    LastStatus(i, st) =>
      /\ ~result[i].ok
      /\ result[i].name \in {"GrampsAPIError", "NotFoundError"}
      /\ result[i].statusCode = st
      /\ result[i].endpoint = Endpoint

\* C16 as amended - every such status fails the request with a typed API
\* failure that carries the HTTP status code; the failure carries the endpoint
\* too, except for 404: that one is a NotFoundError whose endpoint is unset
\* and which names the endpoint in its message only.
C16_CarriesStatus ==
  \A i \in Procs, st \in OtherFailureStatuses :
    LastStatus(i, st) =>
      /\ ~result[i].ok
      /\ result[i].statusCode = st
      /\ IF st = 404
           THEN /\ result[i].name = "NotFoundError"
                /\ result[i].endpoint = Undefined
                /\ result[i].msg = "Resource not found: " \o Endpoint
           ELSE /\ result[i].name = "GrampsAPIError"
                /\ result[i].endpoint = Endpoint

\* a request answered 404 on the retry that followed a 401
C16_Witness ==
  \E i \in Procs :
    /\ LastStatus(i, 404) /\ Len(resp[i]) = 2
    /\ result[i].name = "NotFoundError"
    /\ result[i].statusCode = 404
\* a fetch of request i was aborted by the timeout / failed in the network
TimedOut(i) == pc[i] = "done" /\ raised[i] = "AbortError"
NetworkFailed(i) == pc[i] = "done" /\ raised[i] = "TypeError"

\* the kind (class name) of the failure of a non-2xx status and of a network
\* failure
ApiFailureKind == handleErrorResponse(500, Endpoint).name
NetworkFailureKind == catchMap(RawError("fetch failed"), Endpoint).name

\* C17 as claimed - a request that exceeds its timeout fails with a failure
\* of a kind of its own, different from the kind of an API failure and from
\* the kind of any other transport failure.
C17_TimeoutIsDistinctKind ==
  \A i \in Procs :
    TimedOut(i) =>
      /\ ~result[i].ok
      /\ result[i].name # ApiFailureKind
      /\ result[i].name # NetworkFailureKind

\* C17 as amended - a request that exceeds its timeout fails with a
\* GrampsAPIError, the kind of the API failures and of the other transport
\* failures; it carries the endpoint and no status code, as a network failure
\* does, and differs from a network failure by its message only.
C17_TimeoutIsApiErrorWithMessage ==
  \A i \in Procs :
    /\ TimedOut(i) =>
         /\ ~result[i].ok
         /\ result[i].name = "GrampsAPIError"
         /\ result[i].statusCode = 0
         /\ result[i].endpoint = Endpoint
         /\ result[i].msg = "Request timeout"
    /\ NetworkFailed(i) =>
         /\ result[i].name = "GrampsAPIError"
         /\ result[i].statusCode = 0
         /\ result[i].endpoint = Endpoint
         /\ result[i].msg # "Request timeout"

\* the retry of a request timed out
C17_Witness ==
  \E i \in Procs :
    /\ TimedOut(i)
    /\ Len(sent[i]) = 2
    /\ result[i].name = "GrampsAPIError"
\* the last response request i received was a 2xx with an empty body
EmptySuccess(i) ==
  /\ op[i] = "request" /\ pc[i] = "done" /\ raised[i] = ""
  /\ Len(resp[i]) >= 1
  /\ resp[i][Len(resp[i])].status \in 200..299
  /\ resp[i][Len(resp[i])].body = ""

\* C18 - a 2xx response with an empty body decodes to the empty result, not
\* to a parse failure, on the first attempt and on the retry that follows an
\* authentication rejection.
C18_EmptyBodyIsEmptyResult ==
  \A i \in Procs :
    EmptySuccess(i) => result[i].ok /\ result[i].value = EmptyObject

\* a fetch of request i is aborted by the timeout in this step
TimesOut(i) == raised[i] = "" /\ raised'[i] = "AbortError"

\* C19 - a request that times out fails that request only: the cached token,
\* its expiry and the in-flight marker are what they were before, every
\* pending credential exchange stays pending and every other call in progress
\* stays where it was.
C19_TimeoutLeavesCredentials ==
  [][\A i \in Procs :
       TimesOut(i) =>
         /\ pc'[i] = "done" /\ ~result'[i].ok
         /\ token' = token
         /\ tokenExpiry' = tokenExpiry
         /\ refreshPromise' = refreshPromise
         /\ \A e \in Pending : exchanges'[e] = exchanges[e]
         /\ \A j \in Procs \ {i} :
              /\ pc'[j] = pc[j]
              /\ pc[j] # "done" =>
                    /\ result'[j] = result[j] /\ sent'[j] = sent[j]
                    /\ resp'[j] = resp[j]]_vars

\* a request timed out and the token it had sent is still cached and valid
C19_Witness ==
  \E i \in Procs :
    /\ TimedOut(i)
    /\ Len(sent[i]) = 1
    /\ token.id = sent[i][1]
    /\ hasValidToken

\* C24 - cache hit: whenever a cached token exists and now < expiry,
\* getToken() returns that token, starts no credential exchange and leaves
\* the token, the expiry and the in-flight marker as they are.
C24_CacheHit ==
  [][\A i \in Procs :
       Calls(i) /\ token # NullToken /\ now < tokenExpiry =>
         /\ ServedFromCache(i)
         /\ Len(exchanges') = Len(exchanges)
         /\ Pending' = Pending
         /\ token' = token
         /\ tokenExpiry' = tokenExpiry
         /\ refreshPromise' = refreshPromise]_vars

\* a getToken() was answered from the cache: the caller awaited nothing
C24_Witness ==
  \E i \in Procs :
    /\ op[i] = "getToken" /\ pc[i] = "done" /\ awaiting[i] = 0
    /\ result[i] = Returned(token)
    /\ token # NullToken /\ now < tokenExpiry
    /\ Len(exchanges) = 1 /\ Pending = {}

\* C25 - a request makes at most 2 HTTP attempts against its endpoint; the
\* second one is made only after the first was answered 401; a first attempt
\* that fails in any other way (other non-2xx status, timeout, network error)
\* ends the request, and so does whatever happens to the second attempt.
C25_AtMostOneRetry ==
  \A i \in Procs :
    /\ attempts(i) <= 2
    /\ Len(resp[i]) <= attempts(i)
    /\ attempts(i) = 2 => Len(resp[i]) >= 1 /\ resp[i][1].status = 401
    /\ (Len(resp[i]) >= 1 /\ resp[i][1].status # 401) =>
          pc[i] = "done" /\ attempts(i) = 1
    /\ raised[i] # "" => pc[i] = "done" /\ attempts(i) = Len(resp[i]) + 1
    /\ Len(resp[i]) = 2 => pc[i] = "done"

\* a retry was answered with a failure and no third attempt followed
C25_Witness ==
  \E i \in Procs :
    /\ pc[i] = "done" /\ attempts(i) = 2
    /\ Answered(i, 401, 500)
    /\ ~result[i].ok

\* the token endpoint answered exchange e and the refresh failed
AnsweredAndFailed(e) ==
  exchanges[e].state = "failed" /\ exchanges[e].answer # NoAnswer

\* the refresh behind exchange e fails in this step
RefreshFails(e) ==
  /\ e \in Pending
  /\ exchanges'[e].state = "failed" /\ exchanges'[e].answer # NoAnswer

\* a failed refresh changes neither the cached token nor its expiry
FailedRefreshLeavesCache ==
  [][\A e \in DOMAIN exchanges :
       RefreshFails(e) => token' = token /\ tokenExpiry' = tokenExpiry]_vars

\* C27 as claimed - a refresh that fails, by a non-success status of the
\* token endpoint or by a response without an access token, signals an
\* Authentication failure that carries the status and the body of the
\* response, and leaves the cached token and expiry as they were.
C27_FailureCarriesStatusAndBody ==
  /\ [](\A e \in DOMAIN exchanges :
          AnsweredAndFailed(e) =>
            /\ exchanges[e].err.name = "AuthenticationError"
            /\ exchanges[e].err.msg = failedToAuthenticate(exchanges[e].answer))
  /\ FailedRefreshLeavesCache

\* C27 as amended - such a refresh signals an Authentication failure and
\* leaves the cached token and expiry as they were; for a non-success status
\* the message of the failure carries the status and the body of the response
\* (its status code is 401 whatever the status was), for a response without
\* an access token the message is fixed and carries neither.
C27_FailureIsAuthenticationError ==
  /\ [](\A e \in DOMAIN exchanges :
          AnsweredAndFailed(e) =>
            /\ exchanges[e].err.name = "AuthenticationError"
            /\ exchanges[e].err.statusCode = 401
            /\ exchanges[e].err.msg =
                 IF exchanges[e].answer.status \in 200..299
                   THEN "No access token in response"
                   ELSE failedToAuthenticate(exchanges[e].answer)
            /\ \A i \in Procs :
                 awaiting[i] = e => result[i] = exchanges[e].err)
  /\ FailedRefreshLeavesCache

\* the refresh of an expired token was answered 500: the expired token is
\* still cached
C27_Witness ==
  \E e \in DOMAIN exchanges :
    /\ AnsweredAndFailed(e)
    /\ exchanges[e].answer.status = 500
    /\ token.id # 0 /\ token.id < e
    /\ tokenExpiry = token.exp * 1000 - TOKEN_EXPIRY_BUFFER_MS

\* request i was answered 401 and the token endpoint turned down the forced
\* refresh that followed
ForcedRefreshRejected(i) ==
  /\ pc[i] = "done" /\ op[i] = "request"
  /\ forcedEx[i] # 0
  /\ AnsweredAndFailed(forcedEx[i])

\* caller j makes its call in this step
Invokes(j) == pc[j] = "idle" /\ pc'[j] # "idle"

Relatives(f) ==
  IF dir = "ancestors"
    THEN {Store.families[f].father_handle, Store.families[f].mother_handle} \ {""}
    ELSE {Store.families[f].child_ref_list[k] :
            k \in DOMAIN Store.families[f].child_ref_list} \ {""}

\* r is one family hop from p, through a family whose fetch for p succeeds
Hop(p, r) ==
  \E k \in DOMAIN LinkedFamilies(p) :
    /\ <<p, LinkedFamilies(p)[k]>> \notin failF
    /\ r \in Relatives(LinkedFamilies(p)[k])

\* the persons whose fetch succeeds and that lie within n hops of the origin
\* along persons whose fetch succeeds
RECURSIVE Within(_)
Within(n) ==
  IF n = 0
    THEN {origin} \ failP
    ELSE Within(n - 1) \cup
         {r \in People \ failP : \E p \in Within(n - 1) : Hop(p, r)}

\* the length of the shortest such path to h
Dist(h) ==
  CHOOSE n \in 0..Cardinality(People) :
    h \in Within(n) /\ (n = 0 \/ h \notin Within(n - 1))

\* the origin is its own ancestor (descendant) in the store
OriginOnCycle == \E p \in Within(Cardinality(People)) : Hop(p, origin)

FoundHandles == {found[k].handle : k \in 1..Len(found)}
Occurrences(h) == Cardinality({k \in 1..Len(found) : found[k].handle = h})
Terminated == tpc \in {"done", "error"}

\* C5 - every traversal terminates, whatever cycles the family graph has, and
\* a resolvable origin is returned exactly once, at generation 0, also when it
\* lies on a cycle.
C5_TerminatesOnCycles ==
  /\ <>Terminated
  /\ [](schemaAccepts(schemaDefault(genParam)) => tpc # "error")
  /\ [](tpc = "done" =>
          /\ \A k \in 1..Len(found) :
               found[k].handle = origin => found[k].generation = 0
          /\ Occurrences(origin) = IF origin \in failP THEN 0 ELSE 1)

\* a finished traversal from an origin that is its own ancestor or descendant
C5_Witness ==
  /\ tpc = "done"
  /\ OriginOnCycle
  /\ generations >= 2
  /\ Occurrences(origin) = 1
  /\ Len(found) >= 2

\* C6 - generation bound: every entry queued, fetched or returned has a
\* generation in 0..n, no family is fetched to expand a person at generation n,
\* and the ancestors of H (three real ancestor generations) with n = 2 are the
\* generations 0, 1 and 2 only.
C6_GenerationBound ==
  /\ \A k \in 1..Len(found) : found[k].generation \in 0..generations
  /\ \A k \in 1..Len(queue) : queue[k].generation \in 0..generations
  /\ \A k \in 1..Len(fetched) :
       IF fetched[k].kind = "family"
         THEN fetched[k].gen < generations
         ELSE fetched[k].gen <= generations
  /\ (/\ tpc = "done" /\ gid = 1 /\ origin = "H" /\ dir = "ancestors"
      /\ generations = 2 /\ failP = {} /\ failF = {})
     => /\ DOMAIN output.groups = {0, 1, 2}
        /\ FoundHandles = {"H", "P1", "M1", "P2"}

C6_Witness ==
  /\ tpc = "done" /\ gid = 1 /\ origin = "H" /\ dir = "ancestors"
  /\ generations = 2 /\ failP = {} /\ failF = {}
  /\ "P3" \notin FoundHandles
  /\ \E k \in 1..Len(found) : found[k].generation = 2

\* C7 as claimed - with maxGenerations = 0 the traversal returns only the
\* origin, at generation 0 and labelled Self, and no error.
C7_ZeroReturnsOrigin ==
  (genParam = 0 /\ Terminated /\ origin \notin failP) =>
     /\ tpc = "done"
     /\ found = <<Entry(origin, 0, "Self")>>

\* C7 as amended - maxGenerations = 0 is rejected by the input schema: the
\* call fails with a validation error, nothing is fetched and no entry is
\* returned.
C7_ZeroIsRejected ==
  (genParam = 0 /\ tpc # "start") =>
     /\ tpc = "error"
     /\ output.status = "ZodError"
     /\ fetched = <<>>
     /\ found = <<>>

C7_Witness == genParam = 0 /\ tpc = "error" /\ origin \notin failP

\* C8 - shallowest generation: every returned person is recorded at the
\* length of the shortest path from the origin through persons and families
\* whose fetch succeeds.
C8_ShallowestGeneration ==
  tpc = "done" =>
    \A k \in 1..Len(found) : found[k].generation = Dist(found[k].handle)

\* a person reachable by a path of one hop and by a path of two hops
C8_Witness ==
  /\ tpc = "done"
  /\ \E k \in 1..Len(found) :
       /\ found[k].generation = 1
       /\ \E p \in FoundHandles :
            p # origin /\ Dist(p) = 1 /\ Hop(p, found[k].handle)

\* C9 - dead branch: failed fetches of persons and families never fail the
\* traversal; a person whose fetch failed contributes no entry and every
\* person within the bound along successful fetches is returned.
C9_DeadBranch ==
  /\ schemaAccepts(schemaDefault(genParam)) => tpc # "error"
  /\ tpc = "done" =>
       FoundHandles = Within(generations)
  /\ FoundHandles \cap failP = {}

\* a fetch other than the origin's failed and relatives were still returned
C9_Witness ==
  /\ tpc = "done"
  /\ origin \notin failP
  /\ \E k \in 1..Len(fetched) :
       \/ fetched[k].kind = "person" /\ fetched[k].handle \in failP
       \/ fetched[k].kind = "family"
            /\ \E j \in 1..Len(found) :
                 found[j].generation = fetched[k].gen
                 /\ <<found[j].handle, fetched[k].handle>> \in failF
  /\ Len(found) >= 2

\* C10 - when the fetch of the origin fails the traversal returns the empty
\* result, not an error, and fetches no family.
C10_UnresolvableOrigin ==
  (origin \in failP /\ Terminated /\ schemaAccepts(schemaDefault(genParam))) =>
     /\ tpc = "done"
     /\ output.status = "empty"
     /\ found = <<>>
     /\ \A k \in 1..Len(fetched) : fetched[k].kind = "person"

C10_Witness ==
  /\ origin \in failP
  /\ tpc = "done"
  /\ output.status = "empty"
  /\ fetched = <<[kind |-> "person", handle |-> origin, gen |-> 0]>>

\* C11 - hard ceiling: whatever generation count the caller supplies, counts
\* above 10 included, no traversal runs with a bound above 10 and no entry is
\* queued, fetched or returned at a generation above 10.
C11_HardCeiling ==
  /\ tpc \in {"loop", "person", "family", "done"} =>
        generations <= SCHEMA_MAX_GENERATIONS
  /\ \A k \in 1..Len(found) : found[k].generation <= SCHEMA_MAX_GENERATIONS
  /\ \A k \in 1..Len(queue) : queue[k].generation <= SCHEMA_MAX_GENERATIONS
  /\ \A k \in 1..Len(fetched) : fetched[k].gen <= SCHEMA_MAX_GENERATIONS
  /\ tpc = "done" =>
        output.generations_retrieved <= SCHEMA_MAX_GENERATIONS

\* the caller supplied a count above the ceiling and the call was processed
C11_Witness ==
  /\ genParam > SCHEMA_MAX_GENERATIONS
  /\ tpc # "start"
  /\ found = <<>>

\* the labels the claim gives for a relative at distance d
ancestorLabels(d) ==
  CASE d = 0 -> {"Self"}
    [] d = 1 -> {"Father", "Mother"}
    [] d = 2 -> {"Grandfather", "Grandmother"}
    [] d = 3 -> {"3x Great-Grandfather", "3x Great-Grandmother"}
descendantLabels(d) ==
  CASE d = 0 -> {"Self"}
    [] d = 1 -> {"Child"}
    [] d = 2 -> {"Grandchild"}

\* C20 - label correctness: a relative recorded at distance 1 on the ancestor
\* side is labelled Father or Mother, at distance 2 Grandfather or Grandmother,
\* at distance 3 "3x Great-Grandfather" or "3x Great-Grandmother"; on the
\* descendant side distance 1 is Child and distance 2 Grandchild; the origin
\* (distance 0) is Self.  The recorded generation is the distance.
C20_Labels ==
  /\ \A k \in 1..Len(found) :
       /\ dir = "ancestors" /\ found[k].generation \in 0..3 =>
            found[k].relationship \in ancestorLabels(found[k].generation)
       /\ dir = "descendants" /\ found[k].generation \in 0..2 =>
            found[k].relationship \in descendantLabels(found[k].generation)
       /\ found[k].handle = origin => found[k].relationship = "Self"
  /\ tpc = "done" =>
       \A k \in 1..Len(found) :
         /\ dir = "ancestors" /\ Dist(found[k].handle) \in 0..3 =>
              found[k].relationship \in ancestorLabels(Dist(found[k].handle))
         /\ dir = "descendants" /\ Dist(found[k].handle) \in 0..2 =>
              found[k].relationship \in descendantLabels(Dist(found[k].handle))

\* a finished traversal returned a great-grandfather, a grandfather, a father
\* and a mother
C20_Witness ==
  /\ tpc = "done" /\ dir = "ancestors"
  /\ \E k \in 1..Len(found) :
       /\ Dist(found[k].handle) = 3
       /\ found[k].relationship = "3x Great-Grandfather"
  /\ \E k \in 1..Len(found) : found[k].relationship = "Grandfather"
  /\ \E k \in 1..Len(found) : found[k].relationship = "Father"
  /\ \E k \in 1..Len(found) : found[k].relationship = "Mother"

\* the labels with the counted prefix n
countedLabels(d, n) ==
  IF d = "ancestors"
    THEN {ToString(n) \o "x Great-Grandfather", ToString(n) \o "x Great-Grandmother"}
    ELSE {ToString(n) \o "x Great-Grandchild"}

\* C21 as claimed - a relative at distance d >= 3 is labelled with the counted
\* prefix d - 1: "{d-1}x Great-Grandfather", "{d-1}x Great-Grandmother" or
\* "{d-1}x Great-Grandchild".
C21_PrefixIsDistanceLessOne ==
  tpc = "done" =>
    \A k \in 1..Len(found) :
      Dist(found[k].handle) >= 3 =>
        found[k].relationship \in countedLabels(dir, Dist(found[k].handle) - 1)

\* C21 as amended - a relative at distance d >= 3 is labelled with the counted
\* prefix d: "{d}x Great-Grandfather", "{d}x Great-Grandmother" or
\* "{d}x Great-Grandchild".
C21_PrefixIsDistance ==
  tpc = "done" =>
    \A k \in 1..Len(found) :
      Dist(found[k].handle) >= 3 =>
        found[k].relationship \in countedLabels(dir, Dist(found[k].handle))

\* a finished traversal returned relatives at the distances 3 and 4
C21_Witness ==
  /\ tpc = "done" /\ dir = "ancestors"
  /\ \E k \in 1..Len(found) :
       /\ Dist(found[k].handle) = 3
       /\ found[k].relationship = "3x Great-Grandmother"
  /\ \E k \in 1..Len(found) :
       /\ Dist(found[k].handle) = 4
       /\ found[k].relationship = "4x Great-Grandmother"

\* the number of entries in the groups of the keys ks
RECURSIVE GroupSizes(_)
GroupSizes(ks) ==
  IF ks = {} THEN 0
  ELSE LET g == CHOOSE x \in ks : TRUE
       IN Len(output.groups[g]) + GroupSizes(ks \ {g})

\* the positions at which entry a is listed in the result
Listings(a) ==
  {gk \in (DOMAIN output.groups) \X (1..Len(found)) :
     /\ gk[2] <= Len(output.groups[gk[1]])
     /\ output.groups[gk[1]][gk[2]] = a}

\* C26 - the result lists every recorded entry once, under the key of its
\* generation, has no empty generation group and a total count equal to the
\* sum of the group sizes; the ancestors of P (father D only, D without
\* parents) with bound 3 are generation 0 = [P as Self] and generation 1 =
\* [D as Father], no deeper group, no error.
C26_GroupedByGeneration ==
  /\ (tpc = "done" /\ output.status = "success") =>
       /\ \A k \in 1..Len(found) :
            /\ Cardinality(Listings(found[k])) = 1
            /\ \A gk \in Listings(found[k]) : gk[1] = found[k].generation
       /\ \A g \in DOMAIN output.groups :
            /\ Len(output.groups[g]) > 0
            /\ g \in 0..generations
       /\ output.total_count = GroupSizes(DOMAIN output.groups)
       /\ output.total_count = Len(found)
       /\ output.generations_retrieved = generations
  /\ (/\ Terminated /\ Store = GraphShallow /\ origin = "P"
      /\ dir = "ancestors" /\ generations = 3 /\ failP = {} /\ failF = {}) =>
       /\ tpc = "done" /\ output.status = "success"
       /\ DOMAIN output.groups = {0, 1}
       /\ output.groups[0] = <<Entry("P", 0, "Self")>>
       /\ output.groups[1] = <<Entry("D", 1, "Father")>>

\* the traversal of the shallow graph with bound 3 has finished
C26_Witness ==
  /\ tpc = "done" /\ Store = GraphShallow /\ origin = "P"
  /\ dir = "ancestors" /\ generations = 3 /\ failP = {} /\ failF = {}
  /\ output.total_count = 2

\* the fetches of the person h the traversal issued
PersonFetches(h) ==
  {k \in 1..Len(fetched) : fetched[k].kind = "person" /\ fetched[k].handle = h}

\* C28 - within one traversal each person handle is fetched at most once and
\* is returned at most once, however many paths or queue entries lead to it;
\* this holds too for a handle whose fetch failed.
C28_FetchedOnce ==
  \A h \in People :
    /\ Cardinality(PersonFetches(h)) <= 1
    /\ Occurrences(h) <= 1
    /\ Occurrences(h) <= Cardinality(PersonFetches(h))
    /\ h \in failP => Occurrences(h) = 0

\* a person whose fetch failed was reached from two returned relatives and
\* fetched once
C28_Witness ==
  /\ tpc = "done"
  /\ \E h \in failP :
       /\ Cardinality(PersonFetches(h)) = 1
       /\ Cardinality({p \in FoundHandles :
                         Hop(p, h) /\ Dist(p) < generations}) >= 2

(***************************************************************************)
(* Properties of the family tools (SpecFamily).                            *)
(***************************************************************************)

\* the list names no child twice
NoDuplicate(list) ==
  \A k, l \in DOMAIN list : list[k] = list[l] => k = l

\* the PUT requests call i issued
Puts(i) == SelectSeq(fReqs[i], LAMBDA r : r.method = "PUT")

\* call i received the family
GotFamily(i) == fpc[i] \in {"put", "done"} /\ fOut[i] # "get failed"

\* no call so far replaced the child list by one that names a child twice
ReplacementsClean ==
  \A i \in FamilyCalls : NoDuplicate(fIn[i].child_ref_list.list)

C22_FallbackByGrampsId ==
  (gpc = "done" /\ byHandle(gStore, gInput) = {}
                /\ gOut.error.statusCode \notin {500}) =>
     /\ Len(gReqs) = 2 /\ gReqs[2] = [by |-> "gramps_id", id |-> gInput]
     /\ byGrampsId(gStore, gInput) # {} =>
           gOut.status = "success" /\ gOut.entity \in byGrampsId(gStore, gInput)

(***************************************************************************)
(* Properties of loadConfig (SpecConfig).                                  *)
(***************************************************************************)

\* the variables of the environment that are absent or empty
AbsentOrEmpty ==
  {name \in DOMAIN env : ~env[name].set \/ Len(env[name].val) = 0}

\* the text and what was cut from its end
CutOff(whole, part) == SubSeq(whole, Len(part) + 1, Len(whole))

\* C23 - loadConfig fails if and only if at least one of GRAMPS_API_URL,
\* GRAMPS_USERNAME, GRAMPS_PASSWORD is absent or empty, and then names every
\* missing variable; otherwise it returns the user name and the password as
\* they are and the API URL without any of its trailing slashes.
C23_LoadConfig ==
  cpc = "done" =>
    /\ cfgOut.failed <=> AbsentOrEmpty # {}
    /\ cfgOut.failed =>
         {cfgOut.missing[k] : k \in 1..Len(cfgOut.missing)} = AbsentOrEmpty
    /\ ~cfgOut.failed =>
         LET url == env["GRAMPS_API_URL"].val
             out == cfgOut.config.apiUrl
         IN /\ cfgOut.config.username = env["GRAMPS_USERNAME"].val
            /\ cfgOut.config.password = env["GRAMPS_PASSWORD"].val
            /\ Len(out) <= Len(url) /\ out = SubSeq(url, 1, Len(out))
            /\ \A k \in 1..Len(CutOff(url, out)) : CutOff(url, out)[k] = "/"
            /\ out = <<>> \/ out[Len(out)] # "/"

\* a URL with two trailing slashes was accepted and lost both
C23_Witness ==
  /\ cpc = "done" /\ ~cfgOut.failed
  /\ env["GRAMPS_API_URL"].val = <<"h", "/", "/">>
  /\ cfgOut.config.apiUrl = <<"h">>

=============================================================================
